---- MODULE Spec2Model ----
(***************************************************************************)
(* State-machine model of the User/Item REST service.                      *)
(*                                                                         *)
(* One request = one get_db session that runs one handler.  Every awaited  *)
(* storage call of a handler is one step, so requests interleave exactly   *)
(* where the coroutines can.  The storage is the default build: SQLite     *)
(* behind a StaticPool, i.e. ONE DBAPI connection that every session       *)
(* checks out; `db` is what is committed in the file, `conn` is what the   *)
(* connection's open transaction shows (committed rows plus every flushed  *)
(* but uncommitted statement of any session).                              *)
(***************************************************************************)
EXTENDS Integers, FiniteSets, Sequences, TLC

VARIABLES db, conn, sess, clock, nreq, aio

vars == <<db, conn, sess, clock, nreq, aio>>

(* ------------------------------ bounds -------------------------------- *)
MaxRequests == 2
MaxRaceRequests == 3
MaxClock == 1
NumSessions == 3

Sessions == 1..NumSessions
IdParams == {1, 2}

(* ---------------------------- constants ------------------------------- *)
DefaultLimit == 100
MaxLimit == 100

(* ------------------------------ values -------------------------------- *)
None == "None"
Unset == "Unset"
NoId == -1
NoRow == [id |-> 0]

Usernames == {"alice", "bob"}
Emails == {"a@x.com", "b@x.com"}

Tables == {"users", "items"}

Max(S) == CHOOSE x \in S : \A y \in S : y <= x

(* ------------------------------ schema -------------------------------- *)
UniqueCols(tbl) == IF tbl = "users" THEN {"username", "email"} ELSE {}

NotNullCols(tbl) ==
    IF tbl = "users" THEN {"username", "email", "is_active"}
    ELSE {"title", "is_published"}

(* Validated request bodies.  An update body carries Unset for a field   *)
(* the client left out.                                                   *)
Supplied(b) == {f \in DOMAIN b : b[f] # Unset}

SuppliedSets ==
    { {}, {"username"}, {"email"}, {"full_name"}, {"is_active"},
      {"username", "email"},
      {"title"}, {"description"}, {"is_published"}, {"title", "description"} }

UserCreate ==
    [username : Usernames, email : Emails, full_name : {None, "Al"},
     is_active : {"true"}]

ItemCreate ==
    [title : {"book"}, description : {None, "d"}, is_published : {"false", "true"}]

UserUpdate ==
    { b \in [username : {Unset, None} \cup Usernames,
             email : {Unset, None} \cup Emails,
             full_name : {Unset, None, "Al"},
             is_active : {Unset, None, "false"}] :
        Supplied(b) \in SuppliedSets }

ItemUpdate ==
    { b \in [title : {Unset, None, "pen"},
             description : {Unset, None, "d"},
             is_published : {Unset, None, "true"}] :
        Supplied(b) \in SuppliedSets }

(* The fields the update schemas declare. *)
UpdateFields(res) ==
    IF res = "users" THEN {"username", "email", "full_name", "is_active"}
    ELSE {"title", "description", "is_published"}

(* Keys a PATCH body may carry on top of the declared ones. *)
ExtraKeys ==
    [users |-> { [id |-> 2, created_at |-> 1] },
     items |-> { [owner_id |-> 2], [id |-> 2, created_at |-> 1, owner_id |-> 2] }]

(* PATCH bodies as they arrive: declared fields and undeclared keys. *)
RawUserUpdate ==
    { x @@ b : x \in ExtraKeys.users,
               b \in {c \in UserUpdate : Supplied(c) \in {{}, {"full_name"}}} }

RawItemUpdate ==
    { x @@ b : x \in ExtraKeys.items,
               b \in {c \in ItemUpdate : Supplied(c) \in {{}, {"title"}}} }

(* FastAPI builds the handler's UserUpdate / ItemUpdate from the body:     *)
(* the schemas set no "extra", so pydantic drops every undeclared key.     *)
Validate(r) ==
    IF r.op = "update"
    THEN [f \in DOMAIN r.body \cap UpdateFields(r.res) |-> r.body[f]]
    ELSE r.body

EntityName(tbl) == IF tbl = "users" THEN "User" ELSE "Item"

(* ---------------------------- exceptions ------------------------------ *)
raise_not_found(resource_name, resource_id) ==
    IF resource_id # NoId
    THEN <<resource_name, " with id ", resource_id, " not found">>
    ELSE <<resource_name, " not found">>

(* --------------------------- storage queries -------------------------- *)
Ids(T) == {r.id : r \in T}

get(T, id) == IF id \in Ids(T) THEN CHOOSE r \in T : r.id = id ELSE NoRow

get_by_field(T, field_name, field_value) ==
    IF \E r \in T : r[field_name] = field_value
    THEN CHOOSE r \in T : r[field_name] = field_value
    ELSE NoRow

NextId(T) == IF T = {} THEN 1 ELSE Max(Ids(T)) + 1

NotNullOK(tbl, row) == \A f \in NotNullCols(tbl) : row[f] # None

(* The users table without its two unique indexes. *)
UniqueOK_NoIndex(tbl, T, row) == TRUE

UniqueOK(tbl, T, row) ==
    \A f \in UniqueCols(tbl) : \A r \in T : r.id # row.id => r[f] # row[f]

(* ------------------------- ORM / SQL statements ----------------------- *)
Min(a, b) == IF a <= b THEN a ELSE b

Truthy(v) == v \notin {Unset, None, ""}

(* obj_in.model_dump() then obj_data.update(extra_fields) *)
create_obj_data(obj_in, extra_fields) ==
    [f \in DOMAIN obj_in \cup DOMAIN extra_fields |->
        IF f \in DOMAIN extra_fields THEN extra_fields[f] ELSE obj_in[f]]

(* model_dump(exclude_none=True): a supplied null is dropped as well. *)
update_data_ExcludeNone(obj_in) ==
    [f \in {g \in DOMAIN obj_in : obj_in[g] \notin {Unset, None}} |-> obj_in[f]]

(* obj_in.model_dump(exclude_unset=True) *)
update_data(obj_in) ==
    [f \in {g \in DOMAIN obj_in : obj_in[g] # Unset} |-> obj_in[f]]

(* An id counted from the number of rows instead of the largest rowid. *)
InsertRow_CountId(T, obj_data, now) ==
    [id |-> Cardinality(T) + 1, created_at |-> now, updated_at |-> now] @@ obj_data

(* INSERT: rowid = max(rowid)+1, both timestamps DEFAULT CURRENT_TIMESTAMP *)
InsertRow(T, obj_data, now) ==
    [id |-> NextId(T), created_at |-> now, updated_at |-> now] @@ obj_data

(* The attributes whose set value differs from the loaded one: the only   *)
(* columns the unit of work puts in its UPDATE.                            *)
NetChange(obj, data) ==
    [f \in {g \in DOMAIN data : data[g] # obj[g]} |-> data[f]]

(* An UPDATE that stamps created_at as well as updated_at. *)
UpdateRow_Recreated(row, changed, now) ==
    [f \in DOMAIN row |->
        IF f \in DOMAIN changed THEN changed[f]
        ELSE IF f \in {"created_at", "updated_at"} THEN now ELSE row[f]]

(* UPDATE ... SET <changed>, updated_at=CURRENT_TIMESTAMP WHERE id = ? *)
UpdateRow(row, changed, now) ==
    [f \in DOMAIN row |->
        IF f \in DOMAIN changed THEN changed[f]
        ELSE IF f = "updated_at" THEN now ELSE row[f]]

(* relationship(cascade="all, delete-orphan"): the items the session loads *)
(* for a user it is asked to delete.                                       *)
Cascade(tbl, id, c) ==
    IF tbl = "users" THEN {i.id : i \in {j \in c.items : j.owner_id = id}} ELSE {}

(* A delete that reports success and leaves the rows where they are. *)
DeleteRows_Kept(c, tbl, id, casc) == c

(* DELETE FROM items WHERE id IN casc; DELETE FROM <tbl> WHERE id = ?      *)
DeleteRows(c, tbl, id, casc) ==
    IF tbl = "users"
    THEN [users |-> {u \in c.users : u.id # id},
          items |-> {i \in c.items : i.id \notin casc}]
    ELSE [c EXCEPT !.items = {i \in @ : i.id # id}]

(* ORDER BY created_at DESC: every order of the rows SQL may return *)
(* (rows with the same created_at in any order, newer rows before older)   *)
RECURSIVE TieOrders(_)
TieOrders(B) ==
    IF B = {} THEN {<<>>}
    ELSE UNION { { <<r>> \o q : q \in TieOrders(B \ {r}) } : r \in B }

RECURSIVE Orderings(_)
Orderings(T) ==
    LET times == {r.created_at : r \in T}
    IN IF Cardinality(times) <= 1 THEN TieOrders(T)
       ELSE LET pivot == CHOOSE u \in times :
                            Cardinality({v \in times : v > u})
                               = Cardinality(times) \div 2
            IN { a \o b : a \in Orderings({r \in T : r.created_at > pivot}),
                          b \in Orderings({r \in T : r.created_at <= pivot}) }

(* OFFSET skip LIMIT limit (SQLite: a negative OFFSET is 0, a negative     *)
(* LIMIT is no limit)                                                      *)
Page(q, skip, limit) ==
    LET off == IF skip < 0 THEN 0 ELSE Min(skip, Len(q))
        to == IF limit < 0 THEN Len(q) ELSE Min(Len(q), off + limit)
    IN SubSeq(q, off + 1, to)

get_multi(T, skip, limit) ==
    { Page(q, skip, limit) : q \in Orderings(T) }

get_by_owner(T, owner_id, skip, limit) ==
    { Page(q, skip, limit) : q \in Orderings({i \in T : i.owner_id = owner_id}) }

(* ------------------------------ sessions ------------------------------ *)
Idle ==
    [pc |-> "idle", op |-> "none", res |-> "none", id |-> 0, body |-> <<>>,
     obj |-> NoRow, casc |-> {}, result |-> <<>>, status |-> 0,
     detail |-> <<>>, ignored |-> {}]

Requests ==
         [op : {"create"}, res : {"users"}, id : {0}, body : UserCreate]
    \cup [op : {"create"}, res : {"items"}, id : IdParams, body : ItemCreate]
    \cup [op : {"read", "delete"}, res : Tables, id : IdParams, body : {<<>>}]
    \cup [op : {"update"}, res : {"users"}, id : IdParams, body : UserUpdate]
    \cup [op : {"update"}, res : {"items"}, id : IdParams, body : ItemUpdate]
    \cup [op : {"update"}, res : {"users"}, id : IdParams, body : RawUserUpdate]
    \cup [op : {"update"}, res : {"items"}, id : IdParams, body : RawItemUpdate]
    \cup [op : {"list"}, res : {"items"}, id : IdParams, body : {<<>>}]

(* The requests that are interleaved with one another. *)
NoUpdate == [username |-> Unset, email |-> Unset, full_name |-> Unset,
             is_active |-> Unset]

RaceRequests ==
    { r \in Requests :
        \/ /\ r.op = "create" /\ r.res = "users"
           /\ r.body.full_name = None /\ r.body.is_active = "true"
           /\ <<r.body.username, r.body.email>> # <<"bob", "b@x.com">>
        \/ /\ r.op = "create" /\ r.res = "items" /\ r.id = 1
           /\ r.body.description = None /\ r.body.is_published = "false"
        \/ r.op = "read" /\ r.res = "users" /\ r.id = 2
        \/ r.op = "read" /\ r.res = "items" /\ r.id = 1
        \/ /\ r.op = "update" /\ r.res = "users" /\ r.id = 1
           /\ r.body \in {[NoUpdate EXCEPT !.username = "bob"],
                          [NoUpdate EXCEPT !.email = "b@x.com"]}
        \/ /\ r.op = "update" /\ r.res = "items" /\ r.id = 1
           /\ DOMAIN r.body = UpdateFields(r.res)
           /\ Supplied(r.body) = {"title"} /\ r.body.title = "pen"
        \/ r.op = "delete" /\ r.id = 1
        \/ r.op = "list" /\ r.id = 1 }

FirstPc(r) ==
    CASE r.op = "create" /\ r.res = "users" -> "cu_username"
      [] r.op = "create" /\ r.res = "items" -> "ci_owner"
      [] r.op = "update" /\ r.res = "users" -> "uu_username"
      [] r.op = "list" /\ (r.res = "users" \/ r.id = NoId) -> "list_all"
      [] r.op = "list" -> "list"
      [] r.op = "pages" -> "page1"
      [] OTHER -> "get"

ExtraFields(r) == IF r.res = "items" THEN [owner_id |-> r.id] ELSE <<>>

SuccessStatus(op) ==
    CASE op = "create" -> 201
      [] op = "delete" -> 204
      [] OTHER -> 200

(* The object a SELECT by id hands back: the session's identity map keeps  *)
(* the instance (and its loaded attributes) it already holds for that id.  *)
Load(r, row) ==
    IF row # NoRow /\ r.obj # NoRow /\ r.obj.id = row.id THEN r.obj ELSE row

(* get_db without its except branch: whatever the handler raised, the      *)
(* code after the yield goes on to the commit.                             *)
Raise_Swallowed(s, status, detail) ==
    sess' = [sess EXCEPT ![s].pc = "commit", ![s].status = status,
                         ![s].detail = detail]

Raise(s, status, detail) ==
    sess' = [sess EXCEPT ![s].pc = "rollback", ![s].status = status,
                         ![s].detail = detail]

Goto(s, pc) == sess' = [sess EXCEPT ![s].pc = pc]

(* ------------------------------- Init --------------------------------- *)
User(id, username, email) ==
    [id |-> id, username |-> username, email |-> email, full_name |-> None,
     is_active |-> "true", created_at |-> 0, updated_at |-> 0]

Item(id, owner_id) ==
    [id |-> id, title |-> "book", description |-> None, is_published |-> "false",
     owner_id |-> owner_id, created_at |-> 0, updated_at |-> 0]

(* init_db creates the tables and keeps the rows test.db already holds:   *)
(* an empty file, or what earlier requests left in it.                    *)
InitDBs ==
    { [users |-> {}, items |-> {}],
      [users |-> {User(1, "alice", "a@x.com")}, items |-> {Item(1, 1)}],
      [users |-> {User(1, "alice", "a@x.com"), User(2, "bob", "b@x.com")},
       items |-> {Item(1, 1), Item(2, 2)}] }

(* The event loop before any /concurrent-fetch or /background-task call:  *)
(* no fetch, no gather, no worker task, the process up.                    *)
NoAio ==
    [urls |-> <<>>, resp |-> <<>>, fetch |-> <<>>, gather |-> "none",
     results |-> <<>>, worker |-> <<>>, ack |-> 0, process |-> "up"]

Init ==
    /\ db \in InitDBs
    /\ conn = db
    /\ sess = [s \in Sessions |-> Idle]
    /\ clock = 0
    /\ nreq = 0
    /\ aio = NoAio

(* ------------------------------ actions ------------------------------- *)
InFlight == {t \in Sessions : sess[t].pc # "idle"}

(* A request arrives and FastAPI resolves Depends(get_db): a new session.  *)
(* Slots are interchangeable, so a request takes the lowest free one; at   *)
(* most k requests are in flight, n requests arrive in all.                *)
Start(s, R, k, n) ==
    /\ sess[s].pc = "idle"
    /\ \A t \in Sessions : t < s => sess[t].pc # "idle"
    /\ Cardinality(InFlight) < k
    /\ nreq < n
    /\ \E r \in R :
         sess' = [sess EXCEPT ![s] =
                    [Idle EXCEPT !.pc = FirstPc(r), !.op = r.op, !.res = r.res,
                                 !.id = r.id, !.body = Validate(r),
                                 !.ignored = DOMAIN r.body \ DOMAIN Validate(r)]]
    /\ nreq' = nreq + 1
    /\ UNCHANGED <<db, conn, clock>>
    /\ UNCHANGED aio

Tick ==
    /\ clock < MaxClock
    /\ clock' = clock + 1
    /\ UNCHANGED <<db, conn, sess, nreq>>
    /\ UNCHANGED aio

(* get_db: the code after the yield. *)
Commit(s) ==
    /\ sess[s].pc = "commit"
    /\ db' = conn
    /\ Goto(s, "close")
    /\ UNCHANGED <<conn, clock, nreq>>
    /\ UNCHANGED aio

Rollback(s) ==
    /\ sess[s].pc = "rollback"
    /\ conn' = db
    /\ sess' = [sess EXCEPT ![s] = Idle]
    /\ UNCHANGED <<db, clock, nreq>>
    /\ UNCHANGED aio

Close(s) ==
    /\ sess[s].pc = "close"
    /\ conn' = db
    /\ sess' = [sess EXCEPT ![s] = Idle]
    /\ UNCHANGED <<db, clock, nreq>>
    /\ UNCHANGED aio

(* POST /users *)
CreateUserCheckUsername(s) ==
    /\ sess[s].pc = "cu_username"
    /\ LET db_user == get_by_field(conn.users, "username", sess[s].body.username)
       IN IF db_user # NoRow
          THEN Raise(s, 400, <<"Username already registered">>)
          ELSE Goto(s, "cu_email")
    /\ UNCHANGED <<db, conn, clock, nreq>>
    /\ UNCHANGED aio

(* create_user without its get_user_by_email pre-check. *)
CreateUserCheckEmail_Unchecked(s) ==
    /\ sess[s].pc = "cu_email"
    /\ Goto(s, "create_flush")
    /\ UNCHANGED <<db, conn, clock, nreq>>
    /\ UNCHANGED aio

CreateUserCheckEmail(s) ==
    /\ sess[s].pc = "cu_email"
    /\ LET db_user == get_by_field(conn.users, "email", sess[s].body.email)
       IN IF db_user # NoRow
          THEN Raise(s, 400, <<"Email already registered">>)
          ELSE Goto(s, "create_flush")
    /\ UNCHANGED <<db, conn, clock, nreq>>
    /\ UNCHANGED aio

(* create_item without its owner lookup. *)
CreateItemCheckOwner_Unchecked(s) ==
    /\ sess[s].pc = "ci_owner"
    /\ Goto(s, "create_flush")
    /\ UNCHANGED <<db, conn, clock, nreq>>
    /\ UNCHANGED aio

(* POST /items *)
CreateItemCheckOwner(s) ==
    /\ sess[s].pc = "ci_owner"
    /\ LET owner == get(conn.users, sess[s].id)
       IN IF owner = NoRow
          THEN Raise(s, 404, raise_not_found("Owner", sess[s].id))
          ELSE Goto(s, "create_flush")
    /\ UNCHANGED <<db, conn, clock, nreq>>
    /\ UNCHANGED aio

(* CRUDBase.create: model_dump, update(extra_fields), add, flush. *)
CreateFlush(s) ==
    /\ sess[s].pc = "create_flush"
    /\ LET tbl == sess[s].res
           db_obj == InsertRow(conn[tbl],
                               create_obj_data(sess[s].body, ExtraFields(sess[s])),
                               clock)
       IN IF NotNullOK(tbl, db_obj) /\ UniqueOK(tbl, conn[tbl], db_obj)
          THEN /\ conn' = [conn EXCEPT ![tbl] = @ \cup {db_obj}]
               /\ sess' = [sess EXCEPT ![s].pc = "refresh", ![s].obj = db_obj]
          ELSE /\ Raise(s, 500, <<"IntegrityError">>)
               /\ UNCHANGED conn
    /\ UNCHANGED <<db, clock, nreq>>
    /\ UNCHANGED aio

(* CRUDBase.create / CRUDBase.update: refresh(db_obj), return db_obj. *)
Refresh(s) ==
    /\ sess[s].pc = "refresh"
    /\ LET row == get(conn[sess[s].res], sess[s].obj.id)
       IN IF row = NoRow
          THEN Raise(s, 500, <<"InvalidRequestError">>)
          ELSE sess' = [sess EXCEPT ![s].pc = "commit", ![s].obj = row,
                                    ![s].status = SuccessStatus(sess[s].op)]
    /\ UNCHANGED <<db, conn, clock, nreq>>
    /\ UNCHANGED aio

(* update_user without its "Username already taken" check. *)
UpdateUserCheckUsername_Unchecked(s) ==
    /\ sess[s].pc = "uu_username"
    /\ Goto(s, "uu_email")
    /\ UNCHANGED <<db, conn, clock, nreq>>
    /\ UNCHANGED aio

(* PATCH /users/{user_id}: the two uniqueness pre-checks. *)
(* A check that takes any row with the username as somebody else's. *)
UpdateUserCheckUsername_SelfIncluded(s) ==
    /\ sess[s].pc = "uu_username"
    /\ IF Truthy(sess[s].body.username)
       THEN LET existing_user ==
                    get_by_field(conn.users, "username", sess[s].body.username)
            IN IF existing_user # NoRow
               THEN Raise(s, 400, <<"Username already taken">>)
               ELSE sess' = [sess EXCEPT ![s].pc = "uu_email",
                                         ![s].obj = existing_user]
       ELSE Goto(s, "uu_email")
    /\ UNCHANGED <<db, conn, clock, nreq>>
    /\ UNCHANGED aio

UpdateUserCheckUsername(s) ==
    /\ sess[s].pc = "uu_username"
    /\ IF Truthy(sess[s].body.username)
       THEN LET existing_user ==
                    get_by_field(conn.users, "username", sess[s].body.username)
            IN IF existing_user # NoRow /\ existing_user.id # sess[s].id
               THEN Raise(s, 400, <<"Username already taken">>)
               ELSE sess' = [sess EXCEPT ![s].pc = "uu_email",
                                         ![s].obj = existing_user]
       ELSE Goto(s, "uu_email")
    /\ UNCHANGED <<db, conn, clock, nreq>>
    /\ UNCHANGED aio

UpdateUserCheckEmail(s) ==
    /\ sess[s].pc = "uu_email"
    /\ IF Truthy(sess[s].body.email)
       THEN LET existing_user ==
                    get_by_field(conn.users, "email", sess[s].body.email)
            IN IF existing_user # NoRow /\ existing_user.id # sess[s].id
               THEN Raise(s, 400, <<"Email already taken">>)
               ELSE sess' = [sess EXCEPT ![s].pc = "get",
                                         ![s].obj = existing_user]
       ELSE Goto(s, "get")
    /\ UNCHANGED <<db, conn, clock, nreq>>
    /\ UNCHANGED aio

(* CRUDBase.get as the first call of read / update / delete, and the       *)
(* handler's 404 when it finds nothing.                                    *)
Get(s) ==
    /\ sess[s].pc = "get"
    /\ LET db_obj == Load(sess[s], get(conn[sess[s].res], sess[s].id))
       IN IF db_obj = NoRow
          THEN Raise(s, 404, raise_not_found(EntityName(sess[s].res), sess[s].id))
          ELSE CASE sess[s].op = "read" ->
                      sess' = [sess EXCEPT ![s].pc = "commit", ![s].obj = db_obj,
                                           ![s].status = SuccessStatus("read")]
                 [] sess[s].op = "update" ->
                      sess' = [sess EXCEPT ![s].pc = "update_flush",
                                           ![s].obj = db_obj]
                 [] OTHER ->
                      sess' = [sess EXCEPT ![s].pc = "delete", ![s].obj = db_obj]
    /\ UNCHANGED <<db, conn, clock, nreq>>
    /\ UNCHANGED aio

(* CRUDBase.update: model_dump(exclude_unset=True), setattr, flush. *)
UpdateFlush(s) ==
    /\ sess[s].pc = "update_flush"
    /\ LET tbl == sess[s].res
           changed == NetChange(sess[s].obj, update_data(sess[s].body))
           cur == get(conn[tbl], sess[s].id)
           new == UpdateRow(cur, changed, clock)
       IN IF DOMAIN changed = {}
          THEN /\ Goto(s, "refresh")
               /\ UNCHANGED conn
          ELSE IF cur = NoRow
          THEN /\ Raise(s, 500, <<"StaleDataError">>)
               /\ UNCHANGED conn
          ELSE IF NotNullOK(tbl, new) /\ UniqueOK(tbl, conn[tbl], new)
          THEN /\ conn' = [conn EXCEPT ![tbl] = (@ \ {cur}) \cup {new}]
               /\ Goto(s, "refresh")
          ELSE /\ Raise(s, 500, <<"IntegrityError">>)
               /\ UNCHANGED conn
    /\ UNCHANGED <<db, clock, nreq>>
    /\ UNCHANGED aio

(* CRUDBase.delete: db.delete(db_obj) loads what the delete cascades to. *)
Delete(s) ==
    /\ sess[s].pc = "delete"
    /\ sess' = [sess EXCEPT ![s].pc = "delete_flush",
                            ![s].casc = Cascade(sess[s].res, sess[s].id, conn)]
    /\ UNCHANGED <<db, conn, clock, nreq>>
    /\ UNCHANGED aio

(* CRUDBase.delete: flush, return True; the handler answers 204. *)
DeleteFlush(s) ==
    /\ sess[s].pc = "delete_flush"
    /\ conn' = DeleteRows(conn, sess[s].res, sess[s].id, sess[s].casc)
    /\ sess' = [sess EXCEPT ![s].pc = "commit",
                            ![s].status = SuccessStatus("delete")]
    /\ UNCHANGED <<db, clock, nreq>>
    /\ UNCHANGED aio

(* skip: int = 0, limit: int = 100 when the query string has none *)
QuerySkip(r) == IF r.body = <<>> THEN 0 ELSE r.body.skip

QueryLimit(r) == IF r.body = <<>> THEN DefaultLimit ELSE r.body.limit

(* GET /items?owner_id=... *)
ReadItemsByOwner(s) ==
    /\ sess[s].pc = "list"
    /\ \E q \in get_by_owner(conn.items, sess[s].id, QuerySkip(sess[s]),
                              Min(QueryLimit(sess[s]), MaxLimit)) :
         sess' = [sess EXCEPT ![s].pc = "commit", ![s].result = q,
                              ![s].status = SuccessStatus("list")]
    /\ UNCHANGED <<db, conn, clock, nreq>>
    /\ UNCHANGED aio

Step(s) ==
    \/ CreateUserCheckUsername(s)
    \/ CreateUserCheckEmail(s)
    \/ CreateItemCheckOwner(s)
    \/ CreateFlush(s)
    \/ Refresh(s)
    \/ UpdateUserCheckUsername(s)
    \/ UpdateUserCheckEmail(s)
    \/ Get(s)
    \/ UpdateFlush(s)
    \/ Delete(s)
    \/ DeleteFlush(s)
    \/ ReadItemsByOwner(s)
    \/ Commit(s)
    \/ Rollback(s)
    \/ Close(s)

(* Requests of every kind, up to NumSessions of them interleaved. *)
Next ==
    \/ Tick
    \/ \E s \in Sessions : Start(s, RaceRequests, NumSessions, MaxRaceRequests)
    \/ \E s \in Sessions : Step(s)

Spec == Init /\ [][Next]_vars

(* Every request of Requests, one at a time. *)
NextSeq ==
    \/ Tick
    \/ \E s \in Sessions : Start(s, Requests, 1, MaxRequests)
    \/ \E s \in Sessions : Step(s)

SpecSeq == Init /\ [][NextSeq]_vars

(* --------------------------- list endpoints --------------------------- *)
(* GET /users and GET /items without owner_id *)
ReadMulti(s) ==
    /\ sess[s].pc = "list_all"
    /\ \E q \in get_multi(conn[sess[s].res], QuerySkip(sess[s]),
                          Min(QueryLimit(sess[s]), MaxLimit)) :
         sess' = [sess EXCEPT ![s].pc = "commit", ![s].result = q,
                              ![s].status = SuccessStatus("list")]
    /\ UNCHANGED <<db, conn, clock, nreq, aio>>

(* The rows a repository list call ranges over: the table, or one owner's  *)
(* items.                                                                  *)
Listed(c, r) ==
    IF r.id = NoId THEN c[r.res] ELSE {i \in c.items : i.owner_id = r.id}

(* A caller of the repository that asks for two pages in a row:            *)
(* get_multi / get_by_owner (skip=0, limit=n).  The statement orders by    *)
(* created_at alone; the engine runs it over the rows in one of the orders *)
(* that ORDER BY allows.                                                   *)
FirstPage(s) ==
    /\ sess[s].pc = "page1"
    /\ \E q \in Orderings(Listed(conn, sess[s])) :
         sess' = [sess EXCEPT ![s].pc = "page2",
                              ![s].result = <<Page(q, 0, sess[s].body.n)>>]
    /\ UNCHANGED <<db, conn, clock, nreq, aio>>

(* ... then (skip=n, limit=n): a second statement, run on its own.  It     *)
(* names no key after created_at, so the order among rows that tie is the  *)
(* engine's choice for this statement too.                                 *)
SecondPage(s) ==
    /\ sess[s].pc = "page2"
    /\ \E q \in Orderings(Listed(conn, sess[s])) :
         sess' = [sess EXCEPT
                    ![s].pc = "commit",
                    ![s].result = Append(@, Page(q, sess[s].body.n,
                                                 sess[s].body.n)),
                    ![s].status = SuccessStatus("list")]
    /\ UNCHANGED <<db, conn, clock, nreq, aio>>

MaxListRequests == 1
MaxPage == 3
MaxNeg == 1

SkipParams == (-MaxNeg)..2
LimitParams == ((-MaxNeg)..2) \cup {MaxLimit - 1, MaxLimit, MaxLimit + 1}

Query == [skip : SkipParams, limit : LimitParams]

ListRequests ==
         [op : {"list"}, res : {"users"}, id : {NoId}, body : Query \cup {<<>>}]
    \cup [op : {"list"}, res : {"items"}, id : {NoId} \cup IdParams,
          body : Query \cup {<<>>}]
    \cup [op : {"pages"}, res : {"users"}, id : {NoId}, body : [n : 1..MaxPage]]
    \cup [op : {"pages"}, res : {"items"}, id : {NoId} \cup IdParams,
          body : [n : 1..MaxPage]]

(* Tables for the list calls: rows created in the same second, and a users *)
(* table with one row more than the largest page.                          *)
At(row, time) == [row EXCEPT !.created_at = time, !.updated_at = time]

ManyUsers ==
    { At(User(i, "user" \o ToString(i), ToString(i) \o "@x.com"), i) :
        i \in 1..(MaxLimit + 1) }

ListDBs ==
    InitDBs \cup
    { [users |-> {User(1, "alice", "a@x.com"), User(2, "bob", "b@x.com"),
                  At(User(3, "carol", "c@x.com"), 1)},
       items |-> {Item(1, 1), Item(2, 1), At(Item(3, 1), 1), Item(4, 2),
                  At(Item(5, 2), 1)}],
      [users |-> ManyUsers, items |-> {Item(1, 1), Item(2, 1), Item(3, 2)}] }

InitList ==
    /\ db \in ListDBs
    /\ conn = db
    /\ sess = [s \in Sessions |-> Idle]
    /\ clock = Max({0} \cup {u.created_at : u \in db.users \cup db.items})
    /\ nreq = 0
    /\ aio = NoAio

NextList ==
    \/ \E s \in Sessions : Start(s, ListRequests, 1, MaxListRequests)
    \/ \E s \in Sessions : ReadMulti(s)
    \/ \E s \in Sessions : ReadItemsByOwner(s)
    \/ \E s \in Sessions : FirstPage(s)
    \/ \E s \in Sessions : SecondPage(s)
    \/ \E s \in Sessions : Commit(s)
    \/ \E s \in Sessions : Close(s)

SpecList == InitList /\ [][NextList]_vars

(* ------------------------ async demonstration routes ------------------ *)
MaxUrls == 3
MaxWorkers == 2

Urls == {"posts/1", "posts/2"}
UrlLists == UNION { [1..n -> Urls] : n \in 0..MaxUrls }

(* What client.get / raise_for_status / json make of a request: a 200 with *)
(* a JSON body, a 404 (raise_for_status raises), a connection that fails.  *)
Responses == {"200", "404", "ConnectError"}

Pending == [status |-> "pending"]

(* fetch_url: the entry for the URL, or the error entry when anything in   *)
(* the try block raised                                                    *)
fetch_url(url, response) ==
    IF response = "200"
    THEN [url |-> url, status |-> "200", data |-> "json"]
    ELSE [url |-> url, status |-> "error", error |-> response]

(* fetch_data_concurrently: one fetch_url per URL, handed to gather *)
FetchDataConcurrently ==
    /\ aio.process = "up"
    /\ aio.gather \in {"none", "returned"}
    /\ \E urls \in UrlLists :
         aio' = [aio EXCEPT !.urls = urls,
                            !.resp = [i \in DOMAIN urls |-> "pending"],
                            !.fetch = [i \in DOMAIN urls |-> Pending],
                            !.gather = "waiting",
                            !.results = <<>>]
    /\ UNCHANGED <<db, conn, sess, clock, nreq>>

(* one fetch_url finishes, in whatever order the responses arrive *)
FetchUrl(i) ==
    /\ aio.process = "up"
    /\ aio.gather = "waiting"
    /\ i \in DOMAIN aio.fetch
    /\ aio.fetch[i] = Pending
    /\ \E response \in Responses :
         aio' = [aio EXCEPT !.resp[i] = response,
                            !.fetch[i] = fetch_url(aio.urls[i], response)]
    /\ UNCHANGED <<db, conn, sess, clock, nreq>>

(* a gather that hands back what it has as soon as one fetch is through *)
GatherReturn_FirstCompleted ==
    /\ aio.process = "up"
    /\ aio.gather = "waiting"
    /\ \E i \in DOMAIN aio.fetch : aio.fetch[i] # Pending
    /\ aio' = [aio EXCEPT !.gather = "returned", !.results = aio.fetch]
    /\ UNCHANGED <<db, conn, sess, clock, nreq>>

(* asyncio.gather resumes the caller once every task is through, with     *)
(* the return values in the order of its arguments                         *)
GatherReturn ==
    /\ aio.process = "up"
    /\ aio.gather = "waiting"
    /\ \A i \in DOMAIN aio.fetch : aio.fetch[i] # Pending
    /\ aio' = [aio EXCEPT !.gather = "returned", !.results = aio.fetch]
    /\ UNCHANGED <<db, conn, sess, clock, nreq>>

(* a handler that awaits the worker before it answers *)
create_background_task_Awaited ==
    /\ aio.process = "up"
    /\ Len(aio.worker) < MaxWorkers
    /\ aio' = [aio EXCEPT !.worker = Append(@, "done"), !.ack = @ + 1]
    /\ UNCHANGED <<db, conn, sess, clock, nreq>>

(* POST /background-task: create_task schedules background_worker and the  *)
(* handler returns its message; there is no await between the two.         *)
create_background_task ==
    /\ aio.process = "up"
    /\ Len(aio.worker) < MaxWorkers
    /\ aio' = [aio EXCEPT !.worker = Append(@, "scheduled"), !.ack = @ + 1]
    /\ UNCHANGED <<db, conn, sess, clock, nreq>>

(* background_worker runs up to its await asyncio.sleep(5) ... *)
WorkerSleep(k) ==
    /\ aio.process = "up"
    /\ k \in DOMAIN aio.worker
    /\ aio.worker[k] = "scheduled"
    /\ aio' = [aio EXCEPT !.worker[k] = "sleeping"]
    /\ UNCHANGED <<db, conn, sess, clock, nreq>>

(* ... and prints its message once the sleep is over *)
WorkerDone(k) ==
    /\ aio.process = "up"
    /\ k \in DOMAIN aio.worker
    /\ aio.worker[k] = "sleeping"
    /\ aio' = [aio EXCEPT !.worker[k] = "done"]
    /\ UNCHANGED <<db, conn, sess, clock, nreq>>

(* The process stops: nothing holds the tasks, whatever has not finished   *)
(* never does.                                                             *)
Shutdown ==
    /\ aio.process = "up"
    /\ aio' = [aio EXCEPT !.process = "down"]
    /\ UNCHANGED <<db, conn, sess, clock, nreq>>

NextAsync ==
    \/ FetchDataConcurrently
    \/ \E i \in 1..MaxUrls : FetchUrl(i)
    \/ GatherReturn
    \/ create_background_task
    \/ \E k \in 1..MaxWorkers : WorkerSleep(k)
    \/ \E k \in 1..MaxWorkers : WorkerDone(k)
    \/ Shutdown

SpecAsync == Init /\ [][NextAsync]_vars

(* ------------------- request life cycle with faults ------------------- *)
(* get_db: session.commit() itself raises (the storage refuses the COMMIT); *)
(* the except branch takes over.                                            *)
CommitFault(s) ==
    /\ sess[s].pc = "commit"
    /\ sess' = [sess EXCEPT ![s].pc = "rollback", ![s].status = 500,
                            ![s].detail = <<"OperationalError">>]
    /\ UNCHANGED <<db, conn, clock, nreq, aio>>

MaxLifeRequests == 2
LifeSessions == 2

(* Requests interleaved, commits that may fail, and the event loop running *)
(* every coroutine that is ready.                                          *)
NextLife ==
    \/ Tick
    \/ \E s \in Sessions : Start(s, RaceRequests, LifeSessions, MaxLifeRequests)
    \/ \E s \in Sessions : Step(s)
    \/ \E s \in Sessions : CommitFault(s)

SpecLife ==
    /\ Init
    /\ [][NextLife]_vars
    /\ \A s \in Sessions : WF_vars(Step(s))

(* ------------------------------ claims -------------------------------- *)
IsReq(s, op, res) == sess[s].op = op /\ sess[s].res = res

(* C1: in every committed storage state, whatever the interleaving of the  *)
(* requests, no two distinct User rows share a username and no two         *)
(* distinct User rows share an email.                                      *)
C1_UniqueCommitted ==
    \A u, v \in db.users :
        u.id # v.id => u.username # v.username /\ u.email # v.email

(* Two creations passed the pre-check and one of them was stopped by the   *)
(* unique index while the other's row is in storage.                       *)
C1_Witness ==
    \E s \in Sessions :
        /\ IsReq(s, "create", "users")
        /\ sess[s].pc = "rollback"
        /\ sess[s].detail = <<"IntegrityError">>
        /\ \E u \in db.users : u.username = sess[s].body.username
                               \/ u.email = sess[s].body.email

(* C2: of two concurrent POST /users with the same username, each in its   *)
(* own session, at most one gets its INSERT through; the other fails at    *)
(* the unique index and is rolled back.  So the two are never both past a  *)
(* successful flush, answered 201 and waiting for their commit.            *)
C2_AtMostOneCreated ==
    \A s, t \in Sessions :
        ( /\ s # t
          /\ IsReq(s, "create", "users") /\ IsReq(t, "create", "users")
          /\ sess[s].body.username = sess[t].body.username )
        => ~ ( /\ sess[s].pc = "commit" /\ sess[s].status = 201
               /\ sess[t].pc = "commit" /\ sess[t].status = 201 )

(* C3: in every committed storage state, every Item's owner_id is the id   *)
(* of a User row in storage, also when a POST /items interleaves with a    *)
(* DELETE /users of the same owner.                                        *)
C3_OwnerExists ==
    \A i \in db.items : \E u \in db.users : u.id = i.owner_id

(* C4: the flush of a DELETE /users/{id} removes the user and, in the same *)
(* unit of work, every Item whose owner_id is that id: the owner's list is *)
(* empty, a get of each such item finds nothing, and the Items of other    *)
(* owners are untouched.                                                   *)
C4_CascadeDelete ==
    [][ \A s \in Sessions :
          (IsReq(s, "delete", "users") /\ DeleteFlush(s))
          => /\ sess'[s].status = 204
             /\ get(conn'.users, sess[s].id) = NoRow
             /\ get_by_owner(conn'.items, sess[s].id, 0, MaxLimit) = {<<>>}
             /\ \A i \in conn.items :
                   IF i.owner_id = sess[s].id
                   THEN get(conn'.items, i.id) = NoRow
                   ELSE i \in conn'.items ]_vars

(* The claims below are about one request at a time (SpecSeq): until the   *)
(* request commits, db is storage as the request found it and conn is     *)
(* storage as the request has made it.                                    *)
Target(s) == get(db[sess[s].res], sess[s].id)

(* C5: a POST /users whose username or email is that of a User in storage  *)
(* is answered 400 before create is called: it never gets past the two     *)
(* pre-checks, no row is written, and storage holds exactly one User with  *)
(* that username / email.                                                  *)
C5_DuplicateRejected ==
    \A s \in Sessions :
        ( /\ IsReq(s, "create", "users")
          /\ sess[s].pc # "close"
          /\ \E u \in db.users : \/ u.username = sess[s].body.username
                                 \/ u.email = sess[s].body.email )
        => /\ sess[s].pc \in {"cu_username", "cu_email", "rollback"}
           /\ sess[s].pc = "rollback" => sess[s].status = 400
           /\ sess[s].pc = "cu_email" =>
                 \A u \in db.users : u.username # sess[s].body.username
           /\ conn = db
           /\ \A f \in {"username", "email"} :
                 Cardinality({u \in db.users : u[f] = sess[s].body[f]}) <= 1

(* A new username with an email that is taken: rejected by the second      *)
(* pre-check.                                                              *)
C5_Witness ==
    \E s \in Sessions :
        /\ IsReq(s, "create", "users")
        /\ sess[s].pc = "rollback"
        /\ sess[s].status = 400
        /\ sess[s].detail = <<"Email already registered">>
        /\ Cardinality({u \in db.users : u.email = sess[s].body.email}) = 1
        /\ conn = db

(* C6: a POST /items whose owner_id matches no User is answered 404        *)
(* "Owner with id ... not found" before create is called; neither table    *)
(* is changed.                                                             *)
C6_MissingOwnerRejected ==
    \A s \in Sessions :
        (IsReq(s, "create", "items") /\ get(db.users, sess[s].id) = NoRow)
        => /\ sess[s].pc \in {"ci_owner", "rollback"}
           /\ sess[s].pc = "rollback" =>
                 /\ sess[s].status = 404
                 /\ sess[s].detail = raise_not_found("Owner", sess[s].id)
           /\ conn = db

C6_Witness ==
    \E s \in Sessions :
        /\ IsReq(s, "create", "items")
        /\ get(db.users, sess[s].id) = NoRow
        /\ db.users # {}
        /\ sess[s].pc = "rollback"
        /\ sess[s].status = 404

(* C7: a GET, PATCH or DELETE of an id that is not in storage is answered  *)
(* 404 with the entity's name and the id, whatever the body, a PATCH       *)
(* /users body with a taken username or email included.                    *)
C7_MissingIs404 ==
    \A s \in Sessions :
        ( /\ sess[s].op \in {"read", "update", "delete"}
          /\ sess[s].pc \in {"rollback", "commit"}
          /\ Target(s) = NoRow )
        => /\ sess[s].pc = "rollback"
           /\ sess[s].status = 404
           /\ sess[s].detail =
                 raise_not_found(EntityName(sess[s].res), sess[s].id)

(* C8: a PATCH /users/{id} that supplies a username or email held by a     *)
(* different User is answered 400 by the pre-checks and changes no row;    *)
(* storage never shows the target with a value another user holds.         *)
C8_TakenRejected ==
    \A s \in Sessions :
        ( /\ IsReq(s, "update", "users")
          /\ \E u \in db.users :
               /\ u.id # sess[s].id
               /\ \E f \in {"username", "email"} :
                    Truthy(sess[s].body[f]) /\ u[f] = sess[s].body[f] )
        => /\ sess[s].pc \in {"uu_username", "uu_email", "rollback"}
           /\ sess[s].pc = "rollback" => sess[s].status = 400
           /\ conn = db

(* The target exists, its new username is free, its new email is another   *)
(* user's.                                                                 *)
C8_Witness ==
    \E s \in Sessions :
        /\ IsReq(s, "update", "users")
        /\ Target(s) # NoRow
        /\ sess[s].pc = "rollback"
        /\ sess[s].status = 400
        /\ sess[s].detail = <<"Email already taken">>
        /\ \E u \in db.users : u.id # sess[s].id /\ u.email = sess[s].body.email

(* A PATCH or PUT-style update that reached CRUDBase.update for a row that *)
(* exists: the pre-checks are behind it and the flush has been tried.      *)
Updated(s) ==
    /\ sess[s].op = "update"
    /\ Target(s) # NoRow
    /\ sess[s].pc \in {"refresh", "commit", "rollback"}
    /\ sess[s].status # 400

OtherRowsKept(s) ==
    /\ conn[sess[s].res] \ {get(conn[sess[s].res], sess[s].id)}
         = db[sess[s].res] \ {Target(s)}
    /\ \A tbl \in Tables \ {sess[s].res} : conn[tbl] = db[tbl]

(* C9 as stated: update on an existing entity succeeds for every partial   *)
(* input, sets exactly the fields the input carries, null or not, leaves   *)
(* every other field with its previous value, and changes no other row.    *)
C9_AsStated ==
    \A s \in Sessions :
        Updated(s) =>
            LET old == Target(s)
                new == get(conn[sess[s].res], sess[s].id)
                b == sess[s].body
            IN /\ sess[s].pc # "rollback"
               /\ new # NoRow
               /\ \A f \in DOMAIN old :
                     new[f] = IF f \in Supplied(b) THEN b[f] ELSE old[f]
               /\ OtherRowsKept(s)

(* C9 amended: a supplied null for a NOT NULL column makes the flush raise *)
(* (500) and nothing is changed; otherwise the update sets exactly the     *)
(* supplied fields, null or not, leaves every field but updated_at that    *)
(* was not supplied as it was, and changes no other row.                   *)
C9_PartialUpdate ==
    \A s \in Sessions :
        Updated(s) =>
            LET old == Target(s)
                new == get(conn[sess[s].res], sess[s].id)
                b == sess[s].body
            IN IF \E f \in Supplied(b) \cap NotNullCols(sess[s].res) : b[f] = None
               THEN /\ sess[s].pc = "rollback"
                    /\ sess[s].status = 500
                    /\ conn = db
               ELSE /\ sess[s].pc # "rollback"
                    /\ new # NoRow
                    /\ \A f \in DOMAIN old \ {"updated_at"} :
                          new[f] = IF f \in Supplied(b) THEN b[f] ELSE old[f]
                    /\ new.updated_at >= old.updated_at
                    /\ OtherRowsKept(s)

(* A nullable field is cleared by a supplied null while the fields left    *)
(* out keep their values and a second row is in the table.                 *)
C9_Witness ==
    \E s \in Sessions :
        /\ Updated(s)
        /\ sess[s].pc = "commit"
        /\ IsReq(s, "update", "users")
        /\ Supplied(sess[s].body) = {"full_name"}
        /\ sess[s].body.full_name = None
        /\ Target(s).full_name # None
        /\ get(conn.users, sess[s].id).full_name = None
        /\ Cardinality(conn.users) >= 2

(* C10: create returns an entity whose id the storage assigned and no      *)
(* other row has, whose created_at equals its updated_at, and whose other  *)
(* fields are the validated input overridden by the extra fields (owner_id *)
(* for an Item).                                                           *)
C10_Created ==
    \A s \in Sessions :
        (sess[s].op = "create" /\ sess[s].pc = "commit")
        => LET o == sess[s].obj
               tbl == sess[s].res
           IN /\ sess[s].status = 201
              /\ o.id >= 1
              /\ o.id \notin Ids(db[tbl])
              /\ o \in conn[tbl]
              /\ \A r \in conn[tbl] : r.id = o.id => r = o
              /\ o.created_at = o.updated_at
              /\ \A f \in DOMAIN sess[s].body : o[f] = sess[s].body[f]
              /\ tbl = "items" => o.owner_id = sess[s].id
              /\ DOMAIN o = DOMAIN sess[s].body
                              \cup {"id", "created_at", "updated_at"}
                              \cup (IF tbl = "items" THEN {"owner_id"} ELSE {})

(* An Item created into a table whose lowest id has been deleted. *)
C10_Witness ==
    \E s \in Sessions :
        /\ IsReq(s, "create", "items")
        /\ sess[s].pc = "commit"
        /\ sess[s].obj.owner_id = 2
        /\ sess[s].obj.id = 3
        /\ Ids(db.items) = {2}

Succeeded(s) == sess[s].status \in {200, 201, 204}

(* C11: a get_db session is committed only when its handler completed      *)
(* without raising; once the handler or the commit has raised, the session *)
(* is rolled back with the error kept as the response and never committed; *)
(* and every session that was opened is closed again.                      *)
C11_Lifecycle ==
    /\ [][ \A s \in Sessions :
             /\ sess[s].pc = "commit" => Succeeded(s)
             /\ db' # db =>
                   \E t \in Sessions :
                       /\ sess[t].pc = "commit" /\ Succeeded(t)
                       /\ sess'[t].pc = "close"
             /\ sess[s].pc = "rollback" =>
                   /\ ~ Succeeded(s)
                   /\ sess'[s].pc = "rollback"
                        => sess'[s].status = sess[s].status
                   /\ sess'[s].pc \in {"rollback", "idle"}
                   /\ sess'[s].pc = "idle" => conn' = db /\ db' = db
             /\ (sess[s].pc # "idle" /\ sess'[s].pc = "idle") =>
                   /\ sess[s].pc \in {"rollback", "close"}
                   /\ conn' = db' ]_vars
    /\ \A s \in Sessions : (sess[s].pc # "idle") ~> (sess[s].pc = "idle")

(* A commit that raised: the session is in the except branch with the      *)
(* fault as its response while its flushed INSERT is still pending.        *)
C11_Witness ==
    \E s \in Sessions :
        /\ sess[s].pc = "rollback"
        /\ sess[s].detail = <<"OperationalError">>
        /\ sess[s].op = "create"
        /\ conn # db

(* C12: every request is all-or-nothing in committed storage.  A request   *)
(* that succeeds commits all of its writes together: the row it created or *)
(* updated is in storage as it returned it, the row it deleted and the     *)
(* Items the delete cascaded to are gone.  A request that ends in an error *)
(* leaves committed storage as it was, with none of its writes in it.      *)
C12_AllOrNothing ==
    [][ \A s \in Sessions :
          /\ (sess[s].pc = "commit" /\ sess'[s].pc = "close") =>
                CASE sess[s].op \in {"create", "update"} ->
                       sess[s].obj \in db'[sess[s].res]
                  [] sess[s].op = "delete" ->
                       /\ get(db'[sess[s].res], sess[s].id) = NoRow
                       /\ \A i \in sess[s].casc : get(db'.items, i) = NoRow
                  [] OTHER -> TRUE
          /\ (sess[s].pc = "rollback" /\ sess'[s].pc = "idle") =>
                /\ db' = db
                /\ (sess[s].op = "create" /\ sess[s].obj # NoRow)
                      => sess[s].obj \notin db[sess[s].res] ]_vars

(* C13: whatever integers skip and limit are, GET /users, GET /items and   *)
(* GET /items?owner_id=... return at most 100 entities.                    *)
C13_AtMost100 ==
    \A s \in Sessions :
        (sess[s].op = "list" /\ sess[s].pc \in {"commit", "close"})
        => Len(sess[s].result) <= MaxLimit

(* C14: with no write between them, list(skip=0, limit=n) and              *)
(* list(skip=n, limit=n) return two pages that share no entity and that,   *)
(* one after the other, are the first 2n rows of the table (of the owner's *)
(* items for get_by_owner) in descending created_at order, with no gap and *)
(* no duplicate, rows with equal created_at included.                      *)
C14_Pages ==
    \A s \in Sessions :
        (sess[s].op = "pages" /\ sess[s].pc = "commit")
        => LET rows == Listed(db, sess[s])
               n == sess[s].body.n
               both == sess[s].result[1] \o sess[s].result[2]
           IN /\ \A i \in DOMAIN sess[s].result[1] :
                   \A j \in DOMAIN sess[s].result[2] :
                       sess[s].result[1][i] # sess[s].result[2][j]
              /\ Len(sess[s].result[1]) = Min(n, Cardinality(rows))
              /\ Len(both) = Min(2 * n, Cardinality(rows))
              /\ \A i, j \in DOMAIN both : i # j => both[i] # both[j]
              /\ \A i, j \in DOMAIN both :
                   i < j => both[i].created_at >= both[j].created_at
              /\ \E q \in Orderings(rows) : both = SubSeq(q, 1, Len(both))

(* C15: fetch_data_concurrently(urls) starts one fetch_url per URL and     *)
(* returns only after every one of them has finished; its result has one   *)
(* entry per URL, entry i is the one for urls[i], and a fetch that failed  *)
(* shows as an error entry at its own index while the other entries are    *)
(* what their own fetches returned.                                        *)
C15_GatherAll ==
    /\ aio.gather # "none" => Len(aio.fetch) = Len(aio.urls)
    /\ aio.gather = "returned" =>
         /\ \A i \in DOMAIN aio.fetch : aio.fetch[i] # Pending
         /\ Len(aio.results) = Len(aio.urls)
         /\ \A i \in DOMAIN aio.urls :
              /\ aio.results[i].url = aio.urls[i]
              /\ aio.results[i].status = "error" <=> aio.resp[i] # "200"
              /\ aio.results[i] = fetch_url(aio.urls[i], aio.resp[i])

(* Three fetches, the second one failed, the call has returned. *)
C15_Witness ==
    /\ aio.gather = "returned"
    /\ Len(aio.urls) = MaxUrls
    /\ aio.results[2].status = "error"
    /\ aio.results[1].status = "200"
    /\ aio.results[MaxUrls].status = "200"

(* C16: POST /background-task returns its acknowledgement before the       *)
(* background_worker it started completes: the step that answers leaves    *)
(* the new worker unfinished and touches no other worker, and a worker is  *)
(* never done without its acknowledgement returned.  (The shutdown with a  *)
(* worker unfinished is the reachable state C16_Witness.)                  *)
C16_AckFirst ==
    /\ [][ aio'.ack # aio.ack =>
             /\ aio'.ack = aio.ack + 1
             /\ Len(aio'.worker) = Len(aio.worker) + 1
             /\ aio'.worker[Len(aio'.worker)] = "scheduled"
             /\ \A k \in DOMAIN aio.worker : aio'.worker[k] = aio.worker[k]
         ]_vars
    /\ [](\A k \in DOMAIN aio.worker : aio.ack >= k)

(* The process is down, the acknowledgement was returned and the worker    *)
(* never got to its end.                                                   *)
C16_Witness ==
    /\ aio.process = "down"
    /\ aio.ack >= 1
    /\ \E k \in DOMAIN aio.worker : aio.worker[k] \in {"scheduled", "sleeping"}

(* An update that came back from CRUDBase.update with the refreshed row. *)
UpdateReturned(s) ==
    /\ sess[s].op = "update"
    /\ sess[s].pc = "commit"
    /\ Target(s) # NoRow

(* C17: update with an empty partial input on an existing entity returns   *)
(* the entity with every field as it was, except updated_at, which is      *)
(* strictly greater than before.                                           *)
C17_EmptyUpdateTouches ==
    \A s \in Sessions :
        (UpdateReturned(s) /\ Supplied(sess[s].body) = {})
        => /\ \A f \in DOMAIN Target(s) \ {"updated_at"} :
                sess[s].obj[f] = Target(s)[f]
           /\ sess[s].obj.updated_at > Target(s).updated_at

(* C18: updated_at >= created_at for every entity at all times, and every  *)
(* successful update, one that sets fields to the values they already have *)
(* included, leaves updated_at different from what it was.                 *)
C18_UpdatedAt ==
    /\ \A tbl \in Tables : \A r \in conn[tbl] \cup db[tbl] :
          r.updated_at >= r.created_at
    /\ \A s \in Sessions :
          UpdateReturned(s) => sess[s].obj.updated_at # Target(s).updated_at

(* The request is past its repository call (get, update or delete by id)   *)
(* and storage has not been committed to since it started.                 *)
Called(s) ==
    /\ sess[s].op \in {"read", "update", "delete"}
    /\ sess[s].pc \in {"commit", "rollback"}
    /\ sess[s].status # 400

(* C19: get, update and delete on an id that is not in storage return      *)
(* None, None and False (the handler's 404), raise nothing and change      *)
(* nothing; delete returns True (204) exactly when the row existed, and    *)
(* after it get on that id finds nothing.                                  *)
C19_MissingId ==
    \A s \in Sessions :
        Called(s) =>
            /\ Target(s) = NoRow =>
                 /\ sess[s].pc = "rollback"
                 /\ sess[s].status = 404
                 /\ sess[s].detail
                      = raise_not_found(EntityName(sess[s].res), sess[s].id)
                 /\ conn = db
            /\ sess[s].op = "delete" =>
                 /\ sess[s].status = 204 <=> Target(s) # NoRow
                 /\ sess[s].status = 204 =>
                      get(conn[sess[s].res], sess[s].id) = NoRow

(* A second delete of the user the first request deleted: not found. *)
C19_Witness ==
    \E s \in Sessions :
        /\ IsReq(s, "delete", "users")
        /\ sess[s].id = 1
        /\ sess[s].pc = "rollback"
        /\ sess[s].status = 404
        /\ nreq = 2
        /\ get(db.users, 1) = NoRow
        /\ get(db.users, 2) # NoRow

(* C20: no repository operation commits or rolls back: committed storage  *)
(* changes only in the commit of get_db.  What a request wrote is visible  *)
(* to another session only once that commit is done (and so never if the   *)
(* request ends in an error): the row a session's get returns is a row of  *)
(* committed storage.                                                      *)
C20_CommitOnly ==
    [][ /\ db' # db =>
             \E s \in Sessions : sess[s].pc = "commit" /\ sess'[s].pc = "close"
        /\ \A t \in Sessions :
             (sess[t].pc = "get" /\ sess'[t].pc # "get"
                                 /\ sess'[t].obj # NoRow)
             => sess'[t].obj \in db[sess[t].res] ]_vars

(* C21: identity and ownership are immutable through the API.  The commit *)
(* of a PATCH, whatever keys its body carried, leaves the set of ids of    *)
(* every table as it was, and every row with its created_at and, for an    *)
(* Item, its owner_id; the entity the PATCH returns has the id,            *)
(* created_at and owner_id the row had.                                    *)
C21_Immutable ==
    [][ \A s \in Sessions :
          (sess[s].op = "update" /\ sess[s].pc = "commit"
                                 /\ sess'[s].pc = "close")
          => /\ \A tbl \in Tables :
                  /\ Ids(db'[tbl]) = Ids(db[tbl])
                  /\ \A r \in db[tbl] :
                       LET n == get(db'[tbl], r.id)
                       IN /\ n.created_at = r.created_at
                          /\ tbl = "items" => n.owner_id = r.owner_id
             /\ sess[s].obj.id = sess[s].id
             /\ sess[s].obj.created_at = Target(s).created_at
             /\ sess[s].res = "items"
                   => sess[s].obj.owner_id = Target(s).owner_id ]_vars

(* The second of two PATCH requests on item 1, each with a new title and   *)
(* an owner_id key in its body, is committed.                              *)
C21_Witness ==
    \E s \in Sessions :
        /\ IsReq(s, "update", "items")
        /\ sess[s].id = 1
        /\ sess[s].pc = "close"
        /\ sess[s].status = 200
        /\ "owner_id" \in sess[s].ignored
        /\ sess[s].body.title = "pen"
        /\ nreq = 2
        /\ \E i \in db.items : i.id = 1 /\ i.title = "pen" /\ i.owner_id = 1
                                         /\ i.updated_at > i.created_at

(* A PATCH /users/{id} on an existing user whose body supplies that user's *)
(* current username and/or current email and nothing else, past its        *)
(* handler.                                                                *)
OwnValues(s) ==
    /\ IsReq(s, "update", "users")
    /\ Target(s) # NoRow
    /\ sess[s].pc \in {"commit", "rollback"}
    /\ Supplied(sess[s].body) \in {{"username"}, {"email"}, {"username", "email"}}
    /\ \A f \in Supplied(sess[s].body) : sess[s].body[f] = Target(s)[f]

(* C22: a PATCH /users/{id} that supplies the user's own current username  *)
(* and/or email is not rejected as a duplicate: it returns 200 and the     *)
(* user's username and email, returned and stored, are what they were.     *)
C22_OwnValuesAccepted ==
    \A s \in Sessions :
        OwnValues(s) =>
            /\ sess[s].pc = "commit"
            /\ sess[s].status = 200
            /\ sess[s].obj.username = Target(s).username
            /\ sess[s].obj.email = Target(s).email
            /\ get(conn.users, sess[s].id).username = Target(s).username
            /\ get(conn.users, sess[s].id).email = Target(s).email

(* Bob patches himself with his own username and email, with alice in the  *)
(* table as well, and gets his 200.                                        *)
C22_Witness ==
    \E s \in Sessions :
        /\ OwnValues(s)
        /\ sess[s].id = 2
        /\ Supplied(sess[s].body) = {"username", "email"}
        /\ sess[s].status = 200
        /\ Cardinality(db.users) = 2

====
